---- MODULE Spec2Model ----
(***************************************************************************)
(* A model of cloudworker-router (src/src/Router.ts): the route table, the *)
(* registration shorthands, the matches generator, the handler returned by *)
(* allowedMethods and the asynchronous handle loop.                        *)
(*                                                                         *)
(* Strings are TLA+ strings.  A request path is additionally described by  *)
(* its list of segments (Segs), on which the compiled regular expressions  *)
(* of path-to-regexp are evaluated.  Request paths are lower case and have *)
(* no trailing delimiter, so the "i" flag and the optional trailing        *)
(* delimiter of the compiled expressions play no part.                     *)
(***************************************************************************)
EXTENDS Integers, Sequences, FiniteSets, TLC

VARIABLES
  routes,     \* Router.routes
  lastReg,    \* the path argument of the latest registration call, and whether it threw
  pc,         \* position of the client / of handle
  request,    \* the request being handled: method and pathname
  gen,        \* the matches generator of handle: its position in the route table
  callbacks,  \* handle's callbacks array
  ctx,        \* handle's ctx (the params field)
  cur,        \* the match whose handler is awaited
  error,      \* handle's error
  result,     \* handle's result, once it is a Response
  cbi,        \* position of the for-await loop over callbacks
  returned,   \* the Response handle resolved with
  invoked,    \* history: the handler invocations of this request
  cbRuns,     \* history: the callback invocations of this request
  runs,       \* the results of complete iterations of matches() by a caller
  allowOut,   \* the Response of a direct call of the allowedMethods() handler
  other       \* the locals of a second call of handle, suspended at an await

vars == <<routes, lastReg, pc, request, gen, callbacks, ctx, cur, error, result,
          cbi, returned, invoked, cbRuns, runs, allowOut, other>>

reqVars == <<request, gen, callbacks, ctx, cur, error, result, cbi, returned,
             invoked, cbRuns>>

----------------------------------------------------------------------------
(* Bounds *)

\* number of registration calls made before requests are served
MaxRegs == 2
\* number of complete iterations of matches() a caller makes in a row
MaxRuns == 2

----------------------------------------------------------------------------
(* Input domains *)

Methods == {"GET", "POST", "PUT", "PATCH", "DELETE", "HEAD", "OPTIONS"}

\* request methods served by the request-handling specification
ReqMethods == {"GET", "HEAD", "POST", "OPTIONS"}

\* request pathnames
ReqPaths == {"/", "/users/42"}

\* The segments of a request pathname.
Segs(p) ==
  CASE p = "/" -> <<>>
    [] p = "/users/42" -> <<"users", "42">>
    [] OTHER -> <<>>

\* a user handler (its outcome is chosen anew at each invocation), and the
\* handler returned by allowedMethods()
UserHandlers == {"fn"}
AllowedHandler == "allowedMethods"
Handlers == UserHandlers \cup {AllowedHandler}

\* RouteOptions: only `end` is read by the router itself; TRUE stands for
\* the default (end absent or true)
DefaultOptions == [end |-> TRUE]
NonTerminal == [end |-> FALSE]

\* (path, options) pairs registered before a request is served
PatternInputs ==
  {<<"*", DefaultOptions>>, <<"/users/:id", DefaultOptions>>, <<"/", DefaultOptions>>}

\* (path, options) pairs of the route-table specification: also the
\* catch-all pattern written out, the root as a prefix, and a template the
\* compiler rejects
RegInputs ==
  {<<"*", DefaultOptions>>, <<"(.*)", DefaultOptions>>, <<"/users/:id", DefaultOptions>>,
   <<"/", NonTerminal>>, <<"/:", DefaultOptions>>}

----------------------------------------------------------------------------
(* path-to-regexp: pathToRegexp(path, keys, options) and RegExp exec *)

TextToken(t) == [kind |-> "text", name |-> "", text |-> t]
ParamToken(n) == [kind |-> "param", name |-> n, text |-> "[^/#?]+?"]
GroupToken(n) == [kind |-> "group", name |-> n, text |-> ".*"]

\* parse(path): the tokens of a template, or a TypeError ("*" is a lone
\* modifier, "/:" misses the parameter name).
Parse(path) ==
  CASE path = "(.*)" -> [threw |-> FALSE, tokens |-> <<GroupToken("0")>>]
    [] path = "/" -> [threw |-> FALSE, tokens |-> <<TextToken("")>>]
    [] path = "/users/:id" ->
         [threw |-> FALSE, tokens |-> <<TextToken("users"), ParamToken("id")>>]
    [] OTHER -> [threw |-> TRUE, tokens |-> <<>>]

\* the names of the tokens that capture, in order (the keys array)
RECURSIVE KeysOf(_)
KeysOf(tokens) ==
  IF tokens = <<>> THEN <<>>
  ELSE IF Head(tokens).kind = "text" THEN KeysOf(Tail(tokens))
  ELSE <<Head(tokens).name>> \o KeysOf(Tail(tokens))

\* flags(options): "i" unless options.sensitive; never "g" or "y"
Flags(opts) == "i"

pathToRegexp(path, opts) ==
  LET p == Parse(path) IN
  [threw |-> p.threw,
   keys |-> KeysOf(p.tokens),
   regexp |-> [tokens |-> p.tokens, end |-> opts.end, flags |-> Flags(opts),
               lastIndex |-> 0]]

\* Matching the tokens against a pathname, segment by segment: a text token
\* takes the segment it names (the bare "/" takes none), a parameter takes
\* one segment, the group (.*) takes the whole remaining string.
RECURSIVE MatchTokens(_, _, _)
MatchTokens(tokens, segs, str) ==
  IF tokens = <<>> THEN [ok |-> TRUE, groups |-> <<>>, rest |-> segs]
  ELSE
    LET t == Head(tokens) IN
    IF t.kind = "group" THEN
      LET r == MatchTokens(Tail(tokens), <<>>, str) IN
      [ok |-> r.ok, groups |-> <<str>> \o r.groups, rest |-> r.rest]
    ELSE IF t.kind = "text" /\ t.text = "" THEN MatchTokens(Tail(tokens), segs, str)
    ELSE IF segs = <<>> THEN [ok |-> FALSE, groups |-> <<>>, rest |-> segs]
    ELSE IF t.kind = "text" THEN
      IF Head(segs) = t.text THEN MatchTokens(Tail(tokens), Tail(segs), str)
      ELSE [ok |-> FALSE, groups |-> <<>>, rest |-> segs]
    ELSE
      LET r == MatchTokens(Tail(tokens), Tail(segs), str) IN
      [ok |-> r.ok, groups |-> <<Head(segs)>> \o r.groups, rest |-> r.rest]

\* length of the text a successful match consumed (only read for a regular
\* expression with the g or y flag)
MatchEnd(segs) == Len(segs) + 1

IsSticky(flags) == flags \in {"g", "gi", "y", "iy"}

\* regexp.exec(str): the capture groups or no match, and the lastIndex the
\* RegExp object is left with.  Without g or y, lastIndex is neither read
\* nor written.
exec(regexp, str) ==
  LET r == MatchTokens(regexp.tokens, Segs(str), str)
      hit == r.ok /\ (regexp.end => r.rest = <<>>)
  IN
  IF IsSticky(regexp.flags) THEN
    IF regexp.lastIndex > 0 \/ ~hit
    THEN [matched |-> FALSE, groups |-> <<>>, lastIndex |-> 0]
    ELSE [matched |-> TRUE, groups |-> r.groups,
          lastIndex |-> MatchEnd(Segs(str)) - Len(r.rest)]
  ELSE [matched |-> hit, groups |-> IF hit THEN r.groups ELSE <<>>,
        lastIndex |-> regexp.lastIndex]

----------------------------------------------------------------------------
(* Router.push and the registration shorthands *)

\* Faulty variant of push: "*" is handed to the compiler as it is.
pushUnrewritten(rs, method, path, handler, opts) ==
  LET c == pathToRegexp(path, opts) IN
  IF c.threw THEN [threw |-> TRUE, routes |-> rs]
  ELSE [threw |-> FALSE,
        routes |-> Append(rs, [method |-> method, path |-> path, handler |-> handler,
                               keys |-> c.keys, options |-> opts,
                               regexp |-> c.regexp])]

\* Faulty variant of push: the entry is put at the front of the table.
pushFront(rs, method, path, handler, opts) ==
  LET p == IF path = "*" THEN "(.*)" ELSE path
      c == pathToRegexp(p, opts)
  IN
  IF c.threw THEN [threw |-> TRUE, routes |-> rs]
  ELSE [threw |-> FALSE,
        routes |-> <<[method |-> method, path |-> p, handler |-> handler,
                      keys |-> c.keys, options |-> opts, regexp |-> c.regexp]>> \o rs]

\* Faulty variant of push: the entry is stored before the template is compiled.
pushThenCompile(rs, method, path, handler, opts) ==
  LET p == IF path = "*" THEN "(.*)" ELSE path
      c == pathToRegexp(p, opts)
  IN
  [threw |-> c.threw,
   routes |-> Append(rs, [method |-> method, path |-> p, handler |-> handler,
                          keys |-> c.keys, options |-> opts, regexp |-> c.regexp])]

\* push: the table after the call, or the compiler's error with the table
\* as it was
push(rs, method, path, handler, opts) ==
  LET p == IF path = "*" THEN "(.*)" ELSE path
      c == pathToRegexp(p, opts)
  IN
  IF c.threw THEN [threw |-> TRUE, routes |-> rs]
  ELSE [threw |-> FALSE,
        routes |-> Append(rs, [method |-> method, path |-> p, handler |-> handler,
                               keys |-> c.keys, options |-> opts,
                               regexp |-> c.regexp])]

Building == pc = "build" /\ lastReg.calls < MaxRegs

\* the outcome r of a registration call with argument path
Registered(r, path) ==
  /\ routes' = r.routes
  /\ lastReg' = [path |-> path, threw |-> r.threw, calls |-> lastReg.calls + 1]
  /\ UNCHANGED <<pc, reqVars, runs, allowOut, other>>

all(path, handler, opts) ==
  /\ Building
  /\ Registered(push(routes, "ALL", path, handler, opts), path)

\* the second push runs only if the first did not throw
get(path, handler, opts) ==
  /\ Building
  /\ LET r1 == push(routes, "GET", path, handler, opts)
         r2 == IF r1.threw THEN r1 ELSE push(r1.routes, "HEAD", path, handler, opts)
     IN Registered(r2, path)

post(path, handler, opts) ==
  /\ Building
  /\ Registered(push(routes, "POST", path, handler, opts), path)

put(path, handler, opts) ==
  /\ Building
  /\ Registered(push(routes, "PUT", path, handler, opts), path)

patch(path, handler, opts) ==
  /\ Building
  /\ Registered(push(routes, "PATCH", path, handler, opts), path)

delete(path, handler, opts) ==
  /\ Building
  /\ Registered(push(routes, "DELETE", path, handler, opts), path)

head(path, handler, opts) ==
  /\ Building
  /\ Registered(push(routes, "HEAD", path, handler, opts), path)

options(path, handler, opts) ==
  /\ Building
  /\ Registered(push(routes, "OPTIONS", path, handler, opts), path)

use(handler, opts) ==
  /\ Building
  /\ Registered(push(routes, "ALL", "*", handler, opts), "*")

----------------------------------------------------------------------------
(* Values of a request *)

NoError == [src |-> "null", at |-> 0]
HandlerError(idx) == [src |-> "handler", at |-> idx]
CallbackError(k) == [src |-> "callback", at |-> k]

\* the body of a Response constructed with a null body
NullBody == "<null>"

Response(body, status, allow, marks) ==
  [status |-> status, body |-> body, allow |-> allow, marks |-> marks]

NoResponse == Response(NullBody, 0, <<>>, <<>>)

\* the statuses for which the Response constructor rejects a non-null body
NullBodyStatus == {101, 204, 205, 304}

\* new Response(body, init) throws a TypeError for a body with such a status
ResponseThrows(body, status) == body # NullBody /\ status \in NullBodyStatus

NoMatch == [idx |-> 0, handler |-> "", params |-> <<>>, via |-> "", matches |-> <<>>]

NoRequest == [method |-> "", path |-> ""]

\* lines 192-200: the ctx object of a call of handle (the fields the router
\* sets and never reads are left out, but for state)
NewContext == [params |-> <<>>, state |-> <<>>]

\* the locals of a call of handle that has not been made
NoCall ==
  [pc |-> "idle", request |-> NoRequest, gen |-> [i |-> 1, stage |-> 0],
   callbacks |-> <<>>, ctx |-> NewContext, cur |-> NoMatch, error |-> NoError,
   result |-> NoResponse, cbi |-> 1, returned |-> NoResponse, invoked |-> <<>>,
   cbRuns |-> <<>>]

----------------------------------------------------------------------------
(* keysToParams and the matches generator *)

\* params[prop] = val on an object kept as its list of properties
SetProp(params, name, val) ==
  IF \E k \in 1..Len(params) : params[k].name = name
  THEN [k \in 1..Len(params) |->
          IF params[k].name = name THEN [name |-> name, val |-> val] ELSE params[k]]
  ELSE Append(params, [name |-> name, val |-> val])

Undefined == "<undefined>"

RECURSIVE KeysToParamsFrom(_, _, _, _)
KeysToParamsFrom(groups, keys, i, params) ==
  IF i > Len(groups) THEN params
  ELSE KeysToParamsFrom(groups, keys, i + 1,
         IF groups[i] # Undefined THEN SetProp(params, keys[i], groups[i]) ELSE params)

\* groups[i] is matches[i] of the source (matches[0], the matched text, is not kept)
keysToParams(groups, keys) == KeysToParamsFrom(groups, keys, 1, <<>>)

\* Faulty variant of GenStart: the scan begins at the second route.
GenStartSecond == [i |-> 2, stage |-> 0]

GenStart == [i |-> 1, stage |-> 0]

\* Faulty variant of MethodSkips: no route is skipped for its method.
MethodSkipsNever(route, method) == FALSE

\* line 170: the route is for another method
MethodSkips(route, method) == route.method # method /\ route.method # "ALL"

\* Faulty variant of GenNext: after a shortcut yield the generator goes on
\* with the next route.
RECURSIVE GenNextOnce(_, _, _, _)
GenNextOnce(rs, method, path, c) ==
  IF c.i > Len(rs)
  THEN [done |-> TRUE, match |-> NoMatch, cur |-> c, routes |-> rs]
  ELSE
    LET route == rs[c.i] IN
    IF MethodSkips(route, method)
    THEN GenNextOnce(rs, method, path, [i |-> c.i + 1, stage |-> 0])
    ELSE IF route.path = "(.*)"
    THEN [done |-> FALSE,
          match |-> [idx |-> c.i, handler |-> route.handler,
                     params |-> <<[name |-> "0", val |-> route.path]>>,
                     via |-> "catch-all", matches |-> <<>>],
          cur |-> [i |-> c.i + 1, stage |-> 0], routes |-> rs]
    ELSE IF route.path = "/" /\ route.options.end = FALSE
    THEN [done |-> FALSE,
          match |-> [idx |-> c.i, handler |-> route.handler, params |-> <<>>,
                     via |-> "root", matches |-> <<>>],
          cur |-> [i |-> c.i + 1, stage |-> 0], routes |-> rs]
    ELSE
      LET x == exec(route.regexp, path)
          rs2 == [rs EXCEPT ![c.i].regexp.lastIndex = x.lastIndex]
      IN
      IF ~x.matched THEN GenNextOnce(rs2, method, path, [i |-> c.i + 1, stage |-> 0])
      ELSE [done |-> FALSE,
            match |-> [idx |-> c.i, handler |-> route.handler,
                       params |-> keysToParams(x.groups, route.keys),
                       via |-> "regexp", matches |-> x.groups],
            cur |-> [i |-> c.i + 1, stage |-> 0], routes |-> rs2]

\* The generator resumed at position cur: the next match it yields (or its
\* end), the position it is suspended at, and the table with the RegExp
\* objects as exec left them.  stage counts the shortcut yields already made
\* for route i.
RECURSIVE GenNext(_, _, _, _)
GenNext(rs, method, path, c) ==
  IF c.i > Len(rs)
  THEN [done |-> TRUE, match |-> NoMatch, cur |-> c, routes |-> rs]
  ELSE
    LET route == rs[c.i] IN
    IF c.stage = 0 /\ MethodSkips(route, method)
    THEN GenNext(rs, method, path, [i |-> c.i + 1, stage |-> 0])
    ELSE IF c.stage = 0 /\ route.path = "(.*)"
    THEN [done |-> FALSE,
          match |-> [idx |-> c.i, handler |-> route.handler,
                     params |-> <<[name |-> "0", val |-> route.path]>>,
                     via |-> "catch-all", matches |-> <<>>],
          cur |-> [i |-> c.i, stage |-> 1], routes |-> rs]
    ELSE IF c.stage <= 1 /\ route.path = "/" /\ route.options.end = FALSE
    THEN [done |-> FALSE,
          match |-> [idx |-> c.i, handler |-> route.handler, params |-> <<>>,
                     via |-> "root", matches |-> <<>>],
          cur |-> [i |-> c.i, stage |-> 2], routes |-> rs]
    ELSE
      LET x == exec(route.regexp, path)
          rs2 == [rs EXCEPT ![c.i].regexp.lastIndex = x.lastIndex]
      IN
      IF ~x.matched THEN GenNext(rs2, method, path, [i |-> c.i + 1, stage |-> 0])
      ELSE [done |-> FALSE,
            match |-> [idx |-> c.i, handler |-> route.handler,
                       params |-> keysToParams(x.groups, route.keys),
                       via |-> "regexp", matches |-> x.groups],
            cur |-> [i |-> c.i + 1, stage |-> 0], routes |-> rs2]

\* a caller iterating matches(method, path) to its end
RECURSIVE Drain(_, _, _, _, _)
Drain(rs, method, path, c, acc) ==
  LET g == GenNext(rs, method, path, c) IN
  IF g.done THEN [yields |-> acc, routes |-> g.routes]
  ELSE Drain(g.routes, method, path, g.cur, Append(acc, g.match))

\* Faulty variant of matches: the iteration takes the routes off the table.
matchesConsuming(rs, method, path) ==
  [yields |-> Drain(rs, method, path, GenStart, <<>>).yields, routes |-> <<>>]

matches(rs, method, path) == Drain(rs, method, path, GenStart, <<>>)

IterateMatches(method, path) ==
  /\ pc \in {"build", "matching"}
  /\ Len(runs) < MaxRuns
  /\ runs # <<>> => (runs[1].method = method /\ runs[1].path = path)
  /\ LET d == matches(routes, method, path) IN
     /\ runs' = Append(runs, [method |-> method, path |-> path,
                              yields |-> d.yields, before |-> routes])
     /\ routes' = d.routes
  /\ pc' = "matching"
  /\ UNCHANGED <<lastReg, reqVars, allowOut, other>>

----------------------------------------------------------------------------
(* Router.allowedMethods *)

\* Faulty variant of AllowKey: the method is listed once per route.
AllowKeyAgain(allow, method) == Append(allow, method)

\* allow[method] = true: a new key goes last, a known key stays in place
AllowKey(allow, method) ==
  IF \E k \in 1..Len(allow) : allow[k] = method THEN allow ELSE Append(allow, method)

\* this.routes.forEach(...): the keys of allow, in insertion order
RECURSIVE AllowScan(_, _, _, _)
AllowScan(rs, i, path, allow) ==
  IF i > Len(rs) THEN [allow |-> allow, routes |-> rs]
  ELSE IF rs[i].method = "ALL" THEN AllowScan(rs, i + 1, path, allow)
  ELSE
    LET x == exec(rs[i].regexp, path)
        rs2 == [rs EXCEPT ![i].regexp.lastIndex = x.lastIndex]
    IN AllowScan(rs2, i + 1, path, IF x.matched THEN AllowKey(allow, rs[i].method) ELSE allow)

\* the handler returned by allowedMethods(), called for a request to path
allowedMethods(rs, path) ==
  LET s == AllowScan(rs, 1, path, <<"OPTIONS">>) IN
  [response |-> Response(NullBody, 204, s.allow, <<>>), routes |-> s.routes]

\* a caller invoking router.allowedMethods()(ctx) itself
CallAllowedMethods(path) ==
  /\ pc = "build"
  /\ LET a == allowedMethods(routes, path) IN
     /\ allowOut' = a.response
     /\ routes' = a.routes
  /\ request' = [method |-> "", path |-> path]
  /\ pc' = "direct"
  /\ UNCHANGED <<lastReg, gen, callbacks, ctx, cur, error, result, cbi, returned,
                 invoked, cbRuns, runs, other>>

----------------------------------------------------------------------------
(* Router.handle *)

\* lines 188-200: the URL is parsed, the generator is created (not yet
\* started), callbacks and ctx are set up
Start(method, path) ==
  /\ pc = "build"
  /\ request' = [method |-> method, path |-> path]
  /\ gen' = GenStart
  /\ callbacks' = <<>>
  /\ ctx' = NewContext
  /\ pc' = "loop"
  /\ UNCHANGED <<routes, lastReg, cur, error, result, cbi, returned, invoked, cbRuns,
                 runs, allowOut, other>>

\* Faulty variant of SetParams: ctx.params is left as it was.
SetParamsSkipped(c, match) == c

\* line 205: ctx.params = match.params
SetParams(c, match) == [c EXCEPT !.params = match.params]

\* lines 202-212: the loop pulls the next match, updates ctx.params and
\* calls the handler of the match
InvokeHandler ==
  /\ pc = "loop"
  /\ LET g == GenNext(routes, request.method, request.path, gen) IN
     /\ ~g.done
     /\ routes' = g.routes
     /\ gen' = g.cur
     /\ cur' = g.match
     /\ ctx' = SetParams(ctx, g.match)
     /\ invoked' = Append(invoked, [idx |-> g.match.idx, handler |-> g.match.handler,
                                    params |-> g.match.params, outcome |-> "pending"])
  /\ error' = NoError
  /\ pc' = "handler"
  /\ UNCHANGED <<lastReg, request, callbacks, result, cbi, returned, cbRuns, runs,
                 allowOut, other>>

\* lines 240-242
NotFoundResponse == Response("Not Found", 404, <<>>, <<>>)

\* Faulty variant of ServerErrorResponse: the status is left at its default.
ServerErrorDefaultStatus == Response("Server Error", 200, <<>>, <<>>)

\* line 216
ServerErrorResponse == Response("Server Error", 500, <<>>, <<>>)

\* the history records how the awaited handler resolved
Resolved(outcome) == [invoked EXCEPT ![Len(invoked)].outcome = outcome]

\* Faulty variant of ReturnNotFound: the body is removed for a HEAD request.
ReturnNotFoundStripped ==
  /\ pc = "loop"
  /\ LET g == GenNext(routes, request.method, request.path, gen) IN
     /\ g.done
     /\ routes' = g.routes
     /\ gen' = g.cur
  /\ returned' = IF request.method = "HEAD"
                 THEN Response("", 404, <<>>, <<>>) ELSE NotFoundResponse
  /\ pc' = "done"
  /\ UNCHANGED <<lastReg, request, callbacks, ctx, cur, error, result, cbi, invoked,
                 cbRuns, runs, allowOut, other>>

\* lines 238-242: the generator is exhausted
ReturnNotFound ==
  /\ pc = "loop"
  /\ LET g == GenNext(routes, request.method, request.path, gen) IN
     /\ g.done
     /\ routes' = g.routes
     /\ gen' = g.cur
  /\ returned' = NotFoundResponse
  /\ pc' = "done"
  /\ UNCHANGED <<lastReg, request, callbacks, ctx, cur, error, result, cbi, invoked,
                 cbRuns, runs, allowOut, other>>

AwaitingUser == pc = "handler" /\ cur.handler \in UserHandlers

\* line 212, line 219: the handler resolves with a Response
HandlerReturnsResponse ==
  /\ AwaitingUser
  /\ result' = Response("OK", 200, <<>>, <<>>)
  /\ cbi' = 1
  /\ invoked' = Resolved("response")
  /\ pc' = "callbacks"
  /\ UNCHANGED <<routes, lastReg, request, gen, callbacks, ctx, cur, error, returned,
                 cbRuns, runs, allowOut, other>>

\* line 212, line 219: the handler of the match is the one allowedMethods() returned
AllowedMethodsResponds ==
  /\ pc = "handler"
  /\ cur.handler = AllowedHandler
  /\ LET a == allowedMethods(routes, request.path) IN
     /\ result' = a.response
     /\ routes' = a.routes
  /\ cbi' = 1
  /\ invoked' = Resolved("response")
  /\ pc' = "callbacks"
  /\ UNCHANGED <<lastReg, request, gen, callbacks, ctx, cur, error, returned, cbRuns,
                 runs, allowOut, other>>

\* Faulty variant of HandlerReturnsCallback: the function goes to the front
\* of the callbacks array.
HandlerReturnsCallbackFirst ==
  /\ AwaitingUser
  /\ callbacks' = <<[idx |-> cur.idx, handler |-> cur.handler, call |-> Len(invoked)]>>
                    \o callbacks
  /\ invoked' = Resolved("callback")
  /\ pc' = "loop"
  /\ UNCHANGED <<routes, lastReg, request, gen, ctx, cur, error, result, cbi, returned,
                 cbRuns, runs, allowOut, other>>

\* lines 234-236: the handler resolves with a function
HandlerReturnsCallback ==
  /\ AwaitingUser
  /\ callbacks' = Append(callbacks, [idx |-> cur.idx, handler |-> cur.handler,
                                     call |-> Len(invoked)])
  /\ invoked' = Resolved("callback")
  /\ pc' = "loop"
  /\ UNCHANGED <<routes, lastReg, request, gen, ctx, cur, error, result, cbi, returned,
                 cbRuns, runs, allowOut, other>>

\* the handler resolves with undefined
HandlerReturnsNothing ==
  /\ AwaitingUser
  /\ invoked' = Resolved("nothing")
  /\ pc' = "loop"
  /\ UNCHANGED <<routes, lastReg, request, gen, callbacks, ctx, cur, error, result, cbi,
                 returned, cbRuns, runs, allowOut, other>>

\* Faulty variant of HandlerThrows: the error is noted and the loop goes on
\* with the next match.
HandlerThrowsLoopGoesOn ==
  /\ AwaitingUser
  /\ error' = HandlerError(cur.idx)
  /\ result' = ServerErrorResponse
  /\ invoked' = Resolved("threw")
  /\ pc' = "loop"
  /\ UNCHANGED <<routes, lastReg, request, gen, callbacks, ctx, cur, cbi, returned,
                 cbRuns, runs, allowOut, other>>

\* lines 213-217: the handler throws or rejects
HandlerThrows ==
  /\ AwaitingUser
  /\ error' = HandlerError(cur.idx)
  /\ result' = ServerErrorResponse
  /\ cbi' = 1
  /\ invoked' = Resolved("threw")
  /\ pc' = "callbacks"
  /\ UNCHANGED <<routes, lastReg, request, gen, callbacks, ctx, cur, returned, cbRuns,
                 runs, allowOut, other>>

InCallbacks == pc = "callbacks" /\ cbi <= Len(callbacks)

CallbackKinds == {"same", "new"}

\* what a callback resolves with: the Response it was given, with a header
\* of its own added, or a Response of its own
CallbackResult(kind, k, resp) ==
  IF kind = "same"
  THEN [resp EXCEPT !.marks = Append(@, k)]
  ELSE Response("Replaced", 200, <<>>, <<k>>)

\* line 222: callback cbi resolves
CallbackReturns(kind) ==
  /\ InCallbacks
  /\ cbRuns' = Append(cbRuns, [k |-> cbi, cb |-> callbacks[cbi], response |-> result,
                               error |-> error, outcome |-> kind])
  /\ result' = CallbackResult(kind, cbi, result)
  /\ cbi' = cbi + 1
  /\ UNCHANGED <<routes, lastReg, pc, request, gen, callbacks, ctx, cur, error, returned,
                 invoked, runs, allowOut, other>>

\* Faulty variant of CallbackThrows: the error ends the loop over the callbacks.
CallbackThrowsEndsLoop ==
  /\ InCallbacks
  /\ cbRuns' = Append(cbRuns, [k |-> cbi, cb |-> callbacks[cbi], response |-> result,
                               error |-> error, outcome |-> "threw"])
  /\ error' = CallbackError(cbi)
  /\ cbi' = Len(callbacks) + 1
  /\ UNCHANGED <<routes, lastReg, pc, request, gen, callbacks, ctx, cur, result, returned,
                 invoked, runs, allowOut, other>>

\* lines 223-225: callback cbi throws or rejects
CallbackThrows ==
  /\ InCallbacks
  /\ cbRuns' = Append(cbRuns, [k |-> cbi, cb |-> callbacks[cbi], response |-> result,
                               error |-> error, outcome |-> "threw"])
  /\ error' = CallbackError(cbi)
  /\ cbi' = cbi + 1
  /\ UNCHANGED <<routes, lastReg, pc, request, gen, callbacks, ctx, cur, result, returned,
                 invoked, runs, allowOut, other>>

Finalized == pc = "callbacks" /\ cbi > Len(callbacks)

\* Faulty variant of StripBody: the body is kept.
StripBodyKept(resp) == resp

\* line 230: new Response('', result) keeps the status and the headers
StripBody(resp) == Response("", resp.status, resp.allow, resp.marks)

\* line 230 throws when the Response constructor rejects the empty body
StripThrows(method, resp) == method = "HEAD" /\ ResponseThrows("", resp.status)

\* lines 228-233
ReturnResponse ==
  /\ Finalized
  /\ ~StripThrows(request.method, result)
  /\ returned' = IF request.method = "HEAD" THEN StripBody(result) ELSE result
  /\ pc' = "done"
  /\ UNCHANGED <<routes, lastReg, request, gen, callbacks, ctx, cur, error, result, cbi,
                 invoked, cbRuns, runs, allowOut, other>>

\* line 230: the TypeError of the Response constructor leaves handle
HandleRejects ==
  /\ Finalized
  /\ StripThrows(request.method, result)
  /\ pc' = "rejected"
  /\ UNCHANGED <<routes, lastReg, request, gen, callbacks, ctx, cur, error, result, cbi,
                 returned, invoked, cbRuns, runs, allowOut, other>>

----------------------------------------------------------------------------
(* Two calls of handle in flight *)

\* The locals of handle (lines 188-208) belong to the call.  The variables
\* above hold those of the call that runs; those of the call that waits at
\* an await are kept in other.
Frame ==
  [pc |-> pc, request |-> request, gen |-> gen, callbacks |-> callbacks, ctx |-> ctx,
   cur |-> cur, error |-> error, result |-> result, cbi |-> cbi, returned |-> returned,
   invoked |-> invoked, cbRuns |-> cbRuns]

\* the call with the locals f runs on
Resume(f) ==
  /\ pc' = f.pc
  /\ request' = f.request
  /\ gen' = f.gen
  /\ callbacks' = f.callbacks
  /\ ctx' = f.ctx
  /\ cur' = f.cur
  /\ error' = f.error
  /\ result' = f.result
  /\ cbi' = f.cbi
  /\ returned' = f.returned
  /\ invoked' = f.invoked
  /\ cbRuns' = f.cbRuns

\* the call is suspended at an await (lines 202, 212, 220, 222)
Awaiting(p) == p \in {"loop", "handler", "callbacks"}

\* lines 188-200 of a call of handle
Called(method, path) ==
  [NoCall EXCEPT !.pc = "loop", !.request = [method |-> method, path |-> path],
                 !.gen = GenStart]

\* handle is called while an earlier call waits at an await
StartConcurrent(method, path) ==
  /\ Awaiting(pc)
  /\ other.pc = "idle"
  /\ other' = Frame
  /\ Resume(Called(method, path))
  /\ UNCHANGED <<routes, lastReg, runs, allowOut>>

\* Faulty variant of Switch: callbacks is one array of the router, shared by
\* the calls.
SwitchSharedCallbacks ==
  /\ pc \in {"loop", "handler", "callbacks", "done", "rejected"}
  /\ Awaiting(other.pc)
  /\ other' = Frame
  /\ Resume([other EXCEPT !.callbacks = callbacks])
  /\ UNCHANGED <<routes, lastReg, runs, allowOut>>

\* the call that runs reaches an await or settles, and the event loop goes
\* on with the other call
Switch ==
  /\ pc \in {"loop", "handler", "callbacks", "done", "rejected"}
  /\ Awaiting(other.pc)
  /\ other' = Frame
  /\ Resume(other)
  /\ UNCHANGED <<routes, lastReg, runs, allowOut>>

----------------------------------------------------------------------------
(* Specifications *)

Init ==
  /\ routes = <<>>
  /\ lastReg = [path |-> "", threw |-> FALSE, calls |-> 0]
  /\ pc = "build"
  /\ request = NoRequest
  /\ gen = GenStart
  /\ callbacks = <<>>
  /\ ctx = NewContext
  /\ cur = NoMatch
  /\ error = NoError
  /\ result = NoResponse
  /\ cbi = 1
  /\ returned = NoResponse
  /\ invoked = <<>>
  /\ cbRuns = <<>>
  /\ runs = <<>>
  /\ allowOut = NoResponse
  /\ other = NoCall

\* the router after two registration calls that left it with the table rs
Built(rs) ==
  /\ routes = rs
  /\ lastReg = [path |-> IF rs[Len(rs)].path = "(.*)" THEN "*" ELSE rs[Len(rs)].path,
                threw |-> FALSE, calls |-> 2]
  /\ pc = "build"
  /\ request = NoRequest
  /\ gen = GenStart
  /\ callbacks = <<>>
  /\ ctx = NewContext
  /\ cur = NoMatch
  /\ error = NoError
  /\ result = NoResponse
  /\ cbi = 1
  /\ returned = NoResponse
  /\ invoked = <<>>
  /\ cbRuns = <<>>
  /\ runs = <<>>
  /\ allowOut = NoResponse
  /\ other = NoCall

\* Registration, then one request handled by handle, or a caller iterating
\* matches(), or a caller invoking the allowedMethods() handler.
Next ==
  \/ \E pi \in PatternInputs, h \in Handlers : all(pi[1], h, pi[2])
  \/ \E pi \in PatternInputs, h \in Handlers : get(pi[1], h, pi[2])
  \/ \E pi \in PatternInputs, h \in Handlers : post(pi[1], h, pi[2])
  \/ \E pi \in PatternInputs, h \in Handlers : use(h, pi[2])
  \/ \E m \in ReqMethods, p \in ReqPaths : Start(m, p)
  \/ InvokeHandler
  \/ ReturnNotFound
  \/ HandlerReturnsResponse
  \/ AllowedMethodsResponds
  \/ HandlerReturnsCallback
  \/ HandlerReturnsNothing
  \/ HandlerThrows
  \/ \E kind \in CallbackKinds : CallbackReturns(kind)
  \/ CallbackThrows
  \/ ReturnResponse
  \/ HandleRejects
  \/ \E m \in ReqMethods, p \in ReqPaths : IterateMatches(m, p)
  \/ \E p \in ReqPaths : CallAllowedMethods(p)

Spec == Init /\ [][Next]_vars

\* a step of the call of handle: the handler or callback it awaits settles,
\* and the runtime runs the continuation of the call
HandleStep ==
  \/ InvokeHandler
  \/ ReturnNotFound
  \/ HandlerReturnsResponse
  \/ AllowedMethodsResponds
  \/ HandlerReturnsCallback
  \/ HandlerReturnsNothing
  \/ HandlerThrows
  \/ \E kind \in CallbackKinds : CallbackReturns(kind)
  \/ CallbackThrows
  \/ ReturnResponse
  \/ HandleRejects

\* the tables after use(fn) and get("/users/:id", allowedMethods()), in
\* either order
LiveTables ==
  LET used(rs) == push(rs, "ALL", "*", "fn", DefaultOptions).routes
      got(rs) == push(push(rs, "GET", "/users/:id", AllowedHandler, DefaultOptions).routes,
                      "HEAD", "/users/:id", AllowedHandler, DefaultOptions).routes
  IN {got(used(<<>>)), used(got(<<>>))}

InitLive == \E rs \in LiveTables : Built(rs)

NextLive ==
  \/ \E m \in ReqMethods, p \in ReqPaths : Start(m, p)
  \/ HandleStep

\* One request to a router with a middleware and a route answered by the
\* allowedMethods() handler.  Every handler and callback invocation
\* completes, and the continuation of handle is run after each await.
SpecLive == InitLive /\ [][NextLive]_vars /\ WF_vars(HandleStep)

\* The route table and its readers: registration through every shorthand,
\* then a caller iterating matches() or invoking the allowedMethods() handler.
NextReg ==
  \/ \E pi \in RegInputs, h \in UserHandlers : all(pi[1], h, pi[2])
  \/ \E pi \in RegInputs, h \in UserHandlers : get(pi[1], h, pi[2])
  \/ \E pi \in RegInputs, h \in UserHandlers : post(pi[1], h, pi[2])
  \/ \E pi \in RegInputs, h \in UserHandlers : put(pi[1], h, pi[2])
  \/ \E pi \in RegInputs, h \in UserHandlers : patch(pi[1], h, pi[2])
  \/ \E pi \in RegInputs, h \in UserHandlers : delete(pi[1], h, pi[2])
  \/ \E pi \in RegInputs, h \in UserHandlers : head(pi[1], h, pi[2])
  \/ \E pi \in RegInputs, h \in UserHandlers : options(pi[1], h, pi[2])
  \/ \E pi \in RegInputs, h \in UserHandlers : use(h, pi[2])
  \/ \E m \in ReqMethods, p \in ReqPaths : IterateMatches(m, p)
  \/ \E p \in ReqPaths : CallAllowedMethods(p)

SpecReg == Init /\ [][NextReg]_vars

\* (path, options) pairs of the middleware specification: the catch-all, the
\* root as a prefix and a parameter route
MiddlewareInputs ==
  {<<"*", DefaultOptions>>, <<"/", NonTerminal>>, <<"/users/:id", DefaultOptions>>}

ShortcutInputs == {<<"*", DefaultOptions>>, <<"/", NonTerminal>>}

\* Middleware and shortcut routes: registration through all, get and use
\* with user handlers, then one request handled by handle, or a caller
\* iterating matches().
NextMiddleware ==
  \/ \E pi \in MiddlewareInputs, h \in UserHandlers : all(pi[1], h, pi[2])
  \/ \E pi \in ShortcutInputs, h \in UserHandlers : get(pi[1], h, pi[2])
  \/ \E h \in UserHandlers : use(h, DefaultOptions)
  \/ \E m \in ReqMethods, p \in ReqPaths : Start(m, p)
  \/ InvokeHandler
  \/ ReturnNotFound
  \/ HandlerReturnsResponse
  \/ HandlerReturnsCallback
  \/ HandlerReturnsNothing
  \/ HandlerThrows
  \/ \E kind \in CallbackKinds : CallbackReturns(kind)
  \/ CallbackThrows
  \/ ReturnResponse
  \/ \E m \in ReqMethods, p \in ReqPaths : IterateMatches(m, p)

SpecMiddleware == Init /\ [][NextMiddleware]_vars

\* request methods of the two calls in flight
ConcurrentMethods == {"GET", "HEAD"}

\* the tables after use(fn) and get("/users/:id", fn), in either order
ConcurrentTables ==
  LET used(rs) == push(rs, "ALL", "*", "fn", DefaultOptions).routes
      got(rs) == push(push(rs, "GET", "/users/:id", "fn", DefaultOptions).routes,
                      "HEAD", "/users/:id", "fn", DefaultOptions).routes
  IN {got(used(<<>>)), used(got(<<>>))}

InitConcurrent == \E rs \in ConcurrentTables : Built(rs)

\* Two requests handled at once: handle is called for a request, and called
\* again while the first call waits; the steps of the two calls interleave
\* at the awaits.
NextConcurrent ==
  \/ \E m \in ConcurrentMethods, p \in ReqPaths : Start(m, p)
  \/ \E m \in ConcurrentMethods, p \in ReqPaths : StartConcurrent(m, p)
  \/ Switch
  \/ InvokeHandler
  \/ ReturnNotFound
  \/ HandlerReturnsResponse
  \/ HandlerReturnsCallback
  \/ HandlerReturnsNothing
  \/ HandlerThrows
  \/ \E kind \in CallbackKinds : CallbackReturns(kind)
  \/ CallbackThrows
  \/ ReturnResponse

SpecConcurrent == InitConcurrent /\ [][NextConcurrent]_vars

----------------------------------------------------------------------------
(* Properties *)

\* The table changes only while pc = "build": what is said of every table
\* is checked there.

\* handle has been called
Handling == pc \in {"loop", "handler", "callbacks", "done", "rejected"}

\* The route is for the request: its method fits and its regular
\* expression accepts the path.
Applies(route, method, path) ==
  /\ route.method = method \/ route.method = "ALL"
  /\ exec(route.regexp, path).matched

NonDecreasing(ys) == \A a, b \in 1..Len(ys) : a < b => ys[a].idx <= ys[b].idx

\* the candidates of the request being handled
Candidates == matches(routes, request.method, request.path).yields

\* the handler invocations so far are the first candidates, in their order
InvokedInOrder(ys) ==
  /\ Len(invoked) <= Len(ys)
  /\ \A k \in 1..Len(invoked) :
       /\ invoked[k].idx = ys[k].idx
       /\ invoked[k].handler = routes[invoked[k].idx].handler

(* C1: The candidates matches yields are in registration order             *)
(* (non-decreasing table index), for every table built and every request;   *)
(* at every handler invocation, handle has invoked the handlers in exactly  *)
(* that order, and every earlier route that applies to the request has had  *)
(* its handler invoked before.                                              *)
C1_RegistrationOrder ==
  /\ pc = "build" =>
       \A m \in ReqMethods, p \in ReqPaths : NonDecreasing(matches(routes, m, p).yields)
  /\ pc = "handler" =>
       /\ NonDecreasing(invoked)
       /\ InvokedInOrder(Candidates)
       /\ \A k \in 1..Len(invoked) :
            \A j \in 1..(invoked[k].idx - 1) :
              Applies(routes[j], request.method, request.path)
                => \E k2 \in 1..(k - 1) : invoked[k2].idx = j

\* two routes matched the request and both handlers ran, the earlier first
C1_Witness ==
  /\ Handling
  /\ Len(invoked) >= 2
  /\ invoked[1].idx < invoked[Len(invoked)].idx

Last(seq) == seq[Len(seq)]

\* the table after the registration calls of a List of [op, path] with the
\* user handler and the default options
RECURSIVE TableOf(_)
TableOf(calls) ==
  IF calls = <<>> THEN <<>>
  ELSE
    LET c == Last(calls)
        rs == TableOf(SubSeq(calls, 1, Len(calls) - 1))
        one(method) == push(rs, method, c.path, "fn", DefaultOptions).routes
    IN
    IF c.op = "get"
    THEN push(one("GET"), "HEAD", c.path, "fn", DefaultOptions).routes
    ELSE IF c.op = "post" THEN one("POST")
    ELSE one("ALL")

(* C2 (as stated): after use(M) and get("/users/:id", A), for the request   *)
(* GET /users/42, with M resolving with a callback that adds its header and *)
(* A with a Response: one callback is recorded, A runs with params          *)
(* {id: "42"}, and A's Response passes through M's callback exactly once.   *)
C2_Scenario ==
  /\ routes = TableOf(<<[op |-> "use", path |-> "*"], [op |-> "get", path |-> "/users/:id"]>>)
  /\ request = [method |-> "GET", path |-> "/users/42"]
  /\ pc = "done"
  /\ \A k \in 1..Len(invoked) : invoked[k].idx = 1 => invoked[k].outcome = "callback"
  /\ \A k \in 1..Len(cbRuns) : cbRuns[k].outcome = "same"
  /\ \E k \in 1..Len(invoked) : invoked[k].idx = 2 /\ invoked[k].outcome = "response"

C2_CallbackOnce ==
  C2_Scenario =>
    /\ Len(callbacks) = 1
    /\ Len(cbRuns) = 1
    /\ returned.marks = <<1>>
    /\ \E k \in 1..Len(invoked) :
         invoked[k].idx = 2 /\ invoked[k].params = <<[name |-> "id", val |-> "42"]>>

(* C3 (amended): every GET entry of the table is directly followed by a     *)
(* HEAD entry with the same path, handler, options and matcher, so each     *)
(* candidate a GET request gets from a GET route has its HEAD twin, with    *)
(* the same handler and params, among the candidates of the HEAD request;   *)
(* and the Response handle returns for a HEAD request after a handler       *)
(* resolved with a Response or threw has an empty body.                     *)
\* each candidate of gs that comes from a GET route has its twin in hs
HeadTwins(gs, hs) ==
  \A a \in 1..Len(gs) :
    routes[gs[a].idx].method = "GET" =>
      \E b \in 1..Len(hs) : hs[b] = [gs[a] EXCEPT !.idx = @ + 1]

C3_HeadAfterGet ==
  /\ pc = "build" =>
       /\ \A i \in 1..Len(routes) :
            routes[i].method = "GET" =>
              /\ i < Len(routes)
              /\ routes[i + 1] = [routes[i] EXCEPT !.method = "HEAD"]
       /\ \A p \in ReqPaths :
            HeadTwins(matches(routes, "GET", p).yields, matches(routes, "HEAD", p).yields)
  /\ (/\ pc = "done"
      /\ request.method = "HEAD"
      /\ invoked # <<>>
      /\ Last(invoked).outcome \in {"response", "threw"}) => returned.body = ""

\* a HEAD request reached the handler registered by get, which resolved with
\* a Response with a body, and the body was removed
C3_Witness ==
  /\ pc = "done"
  /\ request.method = "HEAD"
  /\ invoked # <<>>
  /\ Last(invoked).outcome = "response"
  /\ routes[Last(invoked).idx].method = "HEAD"
  /\ routes[Last(invoked).idx - 1].method = "GET"
  /\ result.body = "OK"
  /\ returned.body = ""

(* C3 (as stated): the Response handle returns for a HEAD request that      *)
(* reached the handler registered by get always has an empty body.          *)
C3_HeadBodyAlwaysEmpty ==
  (/\ pc = "done"
   /\ request.method = "HEAD"
   /\ \E k \in 1..Len(invoked) : routes[invoked[k].idx].method = "HEAD")
    => returned.body = ""

\* no route of the table is for the request
NothingApplies ==
  /\ \A i \in 1..Len(routes) : routes[i].method # "ALL"
  /\ \A i \in 1..Len(routes) : ~Applies(routes[i], request.method, request.path)

(* C4: with no ALL route in the table and no route matching the request,    *)
(* handle invokes no handler and returns status 404 with body "Not Found".  *)
C4_NotFound ==
  (Handling /\ NothingApplies) =>
    /\ invoked = <<>>
    /\ pc \in {"loop", "done"}
    /\ pc = "done" => (returned.status = 404 /\ returned.body = "Not Found")

\* a request went through a non-empty table without a match and was answered
C4_Witness ==
  /\ pc = "done"
  /\ routes # <<>>
  /\ NothingApplies
  /\ returned.status = 404

\* handle finished after a handler threw, and no callback resolved with a
\* Response of its own
ThrewUnreplaced ==
  /\ pc = "done"
  /\ invoked # <<>>
  /\ Last(invoked).outcome = "threw"
  /\ \A k \in 1..Len(cbRuns) : cbRuns[k].outcome # "new"

(* C5 (amended): when a handler throws and no callback replaces the         *)
(* Response, handle returns status 500 with body "Server Error" (an empty   *)
(* body for a HEAD request); the first callback receives the thrown error.  *)
C5_ServerError ==
  /\ ThrewUnreplaced =>
       /\ returned.status = 500
       /\ returned.body = IF request.method = "HEAD" THEN "" ELSE "Server Error"
  /\ (Handling /\ invoked # <<>> /\ Last(invoked).outcome = "threw" /\ cbRuns # <<>>)
       => cbRuns[1].error = HandlerError(Last(invoked).idx)

\* a handler threw after a callback was recorded, the callback ran and the
\* 500 Response was returned
C5_Witness ==
  /\ ThrewUnreplaced
  /\ cbRuns # <<>>
  /\ returned.status = 500

(* C5 (as stated): when a handler throws and no callback replaces the       *)
(* Response, handle returns status 500 with body "Server Error".            *)
C5_ServerErrorBody ==
  ThrewUnreplaced => (returned.status = 500 /\ returned.body = "Server Error")

(* C6 (as stated): handle never throws or rejects.                          *)
C6_NeverRejects == pc # "rejected"

\* the concrete methods of the routes that accept path, and the first route
\* of each
AllowedOf(path) ==
  {routes[i].method : i \in {j \in 1..Len(routes) :
      routes[j].method # "ALL" /\ exec(routes[j].regexp, path).matched}}

FirstRouteOf(method, path) ==
  CHOOSE i \in 1..Len(routes) :
    /\ routes[i].method = method /\ exec(routes[i].regexp, path).matched
    /\ \A j \in 1..(i - 1) :
         ~(routes[j].method = method /\ exec(routes[j].regexp, path).matched)

PositionIn(seq, x) == CHOOSE k \in 1..Len(seq) : seq[k] = x

\* get(P, h) then post(P, h), and the allowedMethods() handler called for a
\* request to P
C7_Scenario ==
  /\ pc = "direct"
  /\ request.path = "/users/42"
  /\ routes = TableOf(<<[op |-> "get", path |-> "/users/:id"],
                        [op |-> "post", path |-> "/users/:id"]>>)

(* C7 (amended): the allowedMethods() handler returns status 204 with an    *)
(* Allow header that lists OPTIONS first and then, once each and in table   *)
(* scan order, the concrete methods of the routes accepting the path; after *)
(* get(P) and post(P) that is exactly OPTIONS, GET, HEAD, POST.             *)
C7_AllowHeader ==
  pc = "direct" =>
    LET allow == allowOut.allow
        concrete == AllowedOf(request.path) \ {"OPTIONS"}
    IN
    /\ allowOut.status = 204
    /\ allowOut.body = NullBody
    /\ allow[1] = "OPTIONS"
    /\ \A a, b \in 1..Len(allow) : allow[a] = allow[b] => a = b
    /\ {allow[k] : k \in 1..Len(allow)} = {"OPTIONS"} \cup concrete
    /\ \A x, y \in concrete :
         FirstRouteOf(x, request.path) < FirstRouteOf(y, request.path)
           => PositionIn(allow, x) < PositionIn(allow, y)
    /\ C7_Scenario => allow = <<"OPTIONS", "GET", "HEAD", "POST">>

C7_Witness == C7_Scenario /\ allowOut.status = 204

(* C7 (as stated): after get(P) and post(P) the Allow header is exactly     *)
(* OPTIONS, GET, POST.                                                      *)
C7_AllowGetPost == C7_Scenario => allowOut.allow = <<"OPTIONS", "GET", "POST">>

\* the entry the latest call stored, had it been given "(.*)" as its path
WrittenOut ==
  LET e == Last(routes) IN
  push(SubSeq(routes, 1, Len(routes) - 1), e.method, "(.*)", e.handler, e.options)

\* C8: a registration with the star as its path succeeds and stores the very
\* entry a registration with the catch-all pattern written out stores, so
\* the match sequences of the two tables are the same for every method and
\* path; and a route with that pattern is a candidate for every path
\* whenever its method is ALL or the request's.
\* every catch-all route of the table for method is among the candidates ys
CatchAllsIn(ys, method) ==
  \A i \in 1..Len(routes) :
    (routes[i].path = "(.*)" /\ routes[i].method \in {"ALL", method})
      => \E k \in 1..Len(ys) : ys[k].idx = i

C8_StarIsCatchAll ==
  pc = "build" =>
    /\ \A i \in 1..Len(routes) : routes[i].path # "*"
    /\ lastReg.path = "*" =>
         /\ ~lastReg.threw
         /\ routes # <<>>
         /\ Last(routes).path = "(.*)"
         /\ ~WrittenOut.threw
         /\ WrittenOut.routes = routes
         /\ \A m \in Methods, p \in ReqPaths :
              matches(WrittenOut.routes, m, p).yields = matches(routes, m, p).yields
    /\ \A m \in Methods, p \in ReqPaths :
         CatchAllsIn(matches(routes, m, p).yields, m)

\* a route registered with "*" was yielded to a caller of matches
C8_Witness ==
  /\ lastReg.path = "*"
  /\ pc = "matching"
  /\ \E k \in 1..Len(Last(runs).yields) : Last(runs).yields[k].idx = Len(routes)

(* C9 (as stated): whenever the handler of a catch-all route is invoked,    *)
(* the params it sees are exactly one positional parameter whose value is   *)
(* the full request path.                                                   *)
C9_FullPathParam ==
  (pc = "handler" /\ routes[cur.idx].path = "(.*)")
    => ctx.params = <<[name |-> "0", val |-> request.path]>>

(* C10: successive complete iterations of matches for the same method and   *)
(* path yield the same candidates, in the same order with the same params,  *)
(* and the route table after the calls is the table each call began with.   *)
C10_MatchesIdempotent ==
  \A k \in 1..Len(runs) :
    /\ runs[k].yields = runs[1].yields
    /\ runs[k].before = routes

\* matches was iterated twice and the second iteration yielded a match of a
\* regular expression
C10_Witness ==
  /\ Len(runs) >= 2
  /\ \E k \in 1..Len(runs[2].yields) : runs[2].yields[k].via = "regexp"

\* the compiler rejects the template a registration with this path hands it
Rejects(path) == path # "*" /\ Parse(path).threw

\* the step is a call of a registration operation
RegistrationStep == lastReg'.calls = lastReg.calls + 1

(* C11: a registration call whose template the compiler rejects throws and  *)
(* leaves the route table as it was, whichever operation was called (get    *)
(* stores neither its GET nor its HEAD entry); a call that throws never     *)
(* changes the table, and a call that returns has stored its entry.         *)
C11_RejectedLeavesTable ==
  [][RegistrationStep =>
       /\ Rejects(lastReg'.path) => (lastReg'.threw /\ routes' = routes)
       /\ lastReg'.threw => (Rejects(lastReg'.path) /\ routes' = routes)
       /\ ~lastReg'.threw => Len(routes') > Len(routes)]_vars

\* a call with a rejected template threw after an earlier call had stored a
\* route, and the table still holds just that route's entries
C11_Witness ==
  /\ lastReg.threw
  /\ Rejects(lastReg.path)
  /\ lastReg.calls = 2
  /\ routes # <<>>
  /\ \A i \in 1..Len(routes) : ~Rejects(routes[i].path)

(* C12: while a handler invoked by handle is running, ctx.params is the     *)
(* params of the candidate it was invoked for, that is of the candidate     *)
(* of the request at the position of this invocation in the match sequence. *)
C12_ParamsOfCurrent ==
  pc = "handler" =>
    LET ys == Candidates IN
    /\ ctx.params = cur.params
    /\ Len(invoked) <= Len(ys)
    /\ ctx.params = ys[Len(invoked)].params

\* a second handler runs with params that differ from those the first
\* handler ran with and from the initial empty params
C12_Witness ==
  /\ pc = "handler"
  /\ Len(invoked) >= 2
  /\ ctx.params = cur.params
  /\ ctx.params # invoked[1].params
  /\ ctx.params # <<>>

\* handle has left the loop over the callbacks
Settled == pc \in {"done", "rejected"}

\* a handler resolved with a Response or threw
Answered == invoked # <<>> /\ Last(invoked).outcome \in {"response", "threw"}

(* C13: when a callback throws, its error is the current error from then    *)
(* on (whatever the error was before), the Response is the one the callback *)
(* was given, the next callback receives that Response and that error, and  *)
(* every callback has been invoked by the time handle settles.              *)
C13_CallbackErrorKept ==
  /\ \A k \in 1..Len(cbRuns) :
       cbRuns[k].outcome = "threw" =>
         IF k < Len(cbRuns)
         THEN /\ cbRuns[k + 1].response = cbRuns[k].response
              /\ cbRuns[k + 1].error = CallbackError(cbRuns[k].k)
         ELSE /\ result = cbRuns[k].response
              /\ error = CallbackError(cbRuns[k].k)
  /\ (Settled /\ Answered) =>
       /\ Len(cbRuns) = Len(callbacks)
       /\ \A k \in 1..Len(cbRuns) : cbRuns[k].k = k

\* a callback threw while the error of the handler was the current one, and
\* a later callback ran before handle returned
C13_Witness ==
  /\ pc = "done"
  /\ \E k \in 1..(Len(cbRuns) - 1) :
       /\ cbRuns[k].outcome = "threw"
       /\ cbRuns[k].error.src = "handler"
       /\ cbRuns[k + 1].error.src = "callback"

\* the Response and the error the last handler invocation left handle with
HandlerResponse ==
  IF Last(invoked).outcome = "threw" THEN ServerErrorResponse
  ELSE IF Last(invoked).handler = AllowedHandler
  THEN allowedMethods(routes, request.path).response
  ELSE Response("OK", 200, <<>>, <<>>)

HandlerErrorValue ==
  IF Last(invoked).outcome = "threw" THEN HandlerError(Last(invoked).idx) ELSE NoError

\* the invocations that resolved with a function, in their order
RECURSIVE RecordedBy(_)
RecordedBy(inv) ==
  IF inv = <<>> THEN <<>>
  ELSE LET rest == RecordedBy(SubSeq(inv, 1, Len(inv) - 1)) IN
       IF Last(inv).outcome = "callback" THEN Append(rest, Len(inv)) ELSE rest

(* C14: the callbacks array holds one entry per handler invocation that     *)
(* resolved with a function, in the order of those invocations.  No         *)
(* callback is called before a handler resolved with a Response or threw;   *)
(* after that the callbacks are called one by one in the order of the       *)
(* array, the first with the handler's Response and error, each next one    *)
(* with the Response the previous one resolved with (the same Response if   *)
(* it threw) and the current error, and when handle settles each entry has  *)
(* been called exactly once.                                                *)
C14_CallbacksInOrder ==
  /\ [k \in 1..Len(callbacks) |-> callbacks[k].call] = RecordedBy(invoked)
  /\ cbRuns # <<>> => Answered
  /\ Len(cbRuns) <= Len(callbacks)
  /\ \A k \in 1..Len(cbRuns) :
       /\ cbRuns[k].k = k
       /\ cbRuns[k].cb = callbacks[k]
       /\ cbRuns[k].response =
            IF k = 1 THEN HandlerResponse
            ELSE IF cbRuns[k - 1].outcome = "threw" THEN cbRuns[k - 1].response
            ELSE CallbackResult(cbRuns[k - 1].outcome, k - 1, cbRuns[k - 1].response)
       /\ cbRuns[k].error =
            IF k = 1 THEN HandlerErrorValue
            ELSE IF cbRuns[k - 1].outcome = "threw" THEN CallbackError(k - 1)
            ELSE cbRuns[k - 1].error
  /\ (Settled /\ Answered) => Len(cbRuns) = Len(callbacks)

\* three callbacks were recorded and called in turn, the second with the
\* Response the first had resolved with
C14_Witness ==
  /\ pc = "done"
  /\ Len(callbacks) = 3
  /\ Len(cbRuns) = 3
  /\ cbRuns[1].outcome = "new"
  /\ cbRuns[2].response.body = "Replaced"
  /\ callbacks[1].idx < callbacks[3].idx

(* C15: only the last handler invocation of a request can have resolved     *)
(* with a Response or thrown; every earlier one resolved with a function or *)
(* with nothing.  Once a handler has done so, handle is running the         *)
(* callbacks or has settled: it pulls no further match and invokes no       *)
(* further handler.                                                         *)
C15_FirstAnswerEnds ==
  /\ \A k \in 1..(Len(invoked) - 1) : invoked[k].outcome \in {"callback", "nothing"}
  /\ Answered => pc \in {"callbacks", "done", "rejected"}
  /\ (Handling /\ ~Answered) => (cbi = 1 /\ cbRuns = <<>>)

\* a handler answered the request although a route further down the table
\* applies to it too; the handler of that route was not invoked
C15_Witness ==
  /\ pc = "done"
  /\ Answered
  /\ Len(invoked) >= 2
  /\ \E j \in (Last(invoked).idx + 1)..Len(routes) :
       Applies(routes[j], request.method, request.path)

\* the positions of route i in a match sequence
YieldsOf(ys, i) == {k \in 1..Len(ys) : ys[k].idx = i}

\* route i is yielded exactly twice, at neighbouring positions, first by the
\* shortcut named via with params p1, then by the regular expression with
\* params p2
YieldedTwice(ys, i, via, p1, p2) ==
  \E k \in 1..(Len(ys) - 1) :
    /\ YieldsOf(ys, i) = {k, k + 1}
    /\ ys[k].via = via /\ ys[k].params = p1
    /\ ys[k + 1].via = "regexp" /\ ys[k + 1].params = p2

TemplateParam == <<[name |-> "0", val |-> "(.*)"]>>
PathParam(path) == <<[name |-> "0", val |-> path]>>

IsCatchAll(route) == route.path = "(.*)"
IsPrefixRoot(route) == route.path = "/" /\ route.options.end = FALSE

\* invocation k is the first of a route whose first yield is a shortcut, it
\* resolved with a function or with nothing, and handle went on
FirstOfTwo(k) ==
  /\ IsCatchAll(routes[invoked[k].idx]) \/ IsPrefixRoot(routes[invoked[k].idx])
  /\ k = 1 \/ invoked[k - 1].idx # invoked[k].idx
  /\ invoked[k].outcome \in {"callback", "nothing"}
  /\ k < Len(invoked) \/ pc = "done"

\* C16: for every table, method and path, a catch-all route whose method is
\* ALL or the request's is yielded exactly twice in a row, first with the
\* template string as parameter 0 and then with the request path; a route
\* with path "/" and end = false is yielded twice in a row too.  So when
\* handle invokes the handler of such a route and it resolves with a
\* function or with nothing, the next invocation is of the same route, and
\* two functions returned by the two invocations are two entries of the
\* callbacks array.
C16_YieldedTwice ==
  /\ pc = "build" =>
       \A m \in ReqMethods, p \in ReqPaths :
         LET ys == matches(routes, m, p).yields IN
         \A i \in 1..Len(routes) :
           routes[i].method \in {"ALL", m} =>
             /\ IsCatchAll(routes[i]) =>
                  YieldedTwice(ys, i, "catch-all", TemplateParam, PathParam(p))
             /\ IsPrefixRoot(routes[i]) => YieldedTwice(ys, i, "root", <<>>, <<>>)
  /\ Handling =>
       \A k \in 1..Len(invoked) :
         FirstOfTwo(k) =>
           /\ k < Len(invoked)
           /\ invoked[k + 1].idx = invoked[k].idx
           /\ IsCatchAll(routes[invoked[k].idx]) =>
                /\ invoked[k].params = TemplateParam
                /\ invoked[k + 1].params = PathParam(request.path)
           /\ (invoked[k].outcome = "callback" /\ invoked[k + 1].outcome = "callback") =>
                \E a \in 1..(Len(callbacks) - 1) :
                  /\ callbacks[a].call = k
                  /\ callbacks[a + 1].call = k + 1
                  /\ callbacks[a + 1].idx = callbacks[a].idx

\* one use middleware, whose handler resolved with a function at both of its
\* invocations; both functions were called before handle returned
C16_Witness ==
  /\ pc = "done"
  /\ Len(invoked) = 3
  /\ invoked[1].idx = invoked[2].idx
  /\ routes[invoked[1].idx].method = "ALL" /\ IsCatchAll(routes[invoked[1].idx])
  /\ invoked[1].outcome = "callback" /\ invoked[2].outcome = "callback"
  /\ Len(callbacks) = 2
  /\ Len(cbRuns) = 2

\* a handler of the call with the locals f resolved with a Response or threw
AnsweredIn(f) ==
  f.invoked # <<>> /\ Last(f.invoked).outcome \in {"response", "threw"}

\* the Response and the error that call holds after its first k callbacks,
\* as the outcomes of its handlers and callbacks determine them
RECURSIVE ResultAfter(_, _)
ResultAfter(f, k) ==
  IF k = 0
  THEN IF Last(f.invoked).outcome = "threw" THEN ServerErrorResponse
       ELSE IF Last(f.invoked).handler = AllowedHandler
       THEN allowedMethods(routes, f.request.path).response
       ELSE Response("OK", 200, <<>>, <<>>)
  ELSE IF f.cbRuns[k].outcome = "threw" THEN ResultAfter(f, k - 1)
  ELSE CallbackResult(f.cbRuns[k].outcome, k, ResultAfter(f, k - 1))

RECURSIVE ErrorAfter(_, _)
ErrorAfter(f, k) ==
  IF k = 0
  THEN IF Last(f.invoked).outcome = "threw" THEN HandlerError(Last(f.invoked).idx)
       ELSE NoError
  ELSE IF f.cbRuns[k].outcome = "threw" THEN CallbackError(k)
  ELSE ErrorAfter(f, k - 1)

\* The locals f of a call are what the route table, the request of the call
\* and the outcomes of its own handler and callback invocations determine:
\* the invocations follow the match sequence of its request, ctx holds the
\* params of its latest match and the state object it was created with, the
\* callbacks array holds the functions its own invocations returned, each
\* callback got the Response and error of its own chain, and the Response
\* returned is the end of that chain (without body for HEAD) or the 404.
HandledAlone(f) ==
  LET ys == matches(routes, f.request.method, f.request.path).yields
      n == Len(f.invoked)
      rec == RecordedBy(f.invoked)
  IN
  /\ n <= Len(ys)
  /\ \A k \in 1..n :
       /\ f.invoked[k].idx = ys[k].idx
       /\ f.invoked[k].handler = ys[k].handler
       /\ f.invoked[k].params = ys[k].params
  /\ f.ctx = [params |-> IF n = 0 THEN <<>> ELSE ys[n].params, state |-> <<>>]
  /\ f.callbacks = [k \in 1..Len(rec) |->
                      [idx |-> ys[rec[k]].idx, handler |-> ys[rec[k]].handler,
                       call |-> rec[k]]]
  /\ Len(f.cbRuns) <= Len(f.callbacks)
  /\ f.cbRuns # <<>> => AnsweredIn(f)
  /\ \A k \in 1..Len(f.cbRuns) :
       /\ f.cbRuns[k].k = k
       /\ f.cbRuns[k].cb = f.callbacks[k]
       /\ f.cbRuns[k].response = ResultAfter(f, k - 1)
       /\ f.cbRuns[k].error = ErrorAfter(f, k - 1)
  /\ AnsweredIn(f) =>
       /\ f.result = ResultAfter(f, Len(f.cbRuns))
       /\ f.error = ErrorAfter(f, Len(f.cbRuns))
  /\ f.pc = "done" =>
       IF AnsweredIn(f)
       THEN /\ Len(f.cbRuns) = Len(f.callbacks)
            /\ f.returned = [f.result EXCEPT
                               !.body = IF f.request.method = "HEAD" THEN "" ELSE @]
       ELSE /\ f.cbRuns = <<>>
            /\ f.returned = Response("Not Found", 404, <<>>, <<>>)

(* C17: with two calls of handle in flight, interleaved at their awaits,    *)
(* the locals of each call are those its own request and its own handler    *)
(* and callback outcomes determine, as for a call handled alone: no         *)
(* invocation, callback, Response or error of one call shows up in the      *)
(* other.  No step of either call changes the route table.                  *)
C17_Independent ==
  /\ [](Handling => (HandledAlone(Frame) /\ (other.pc # "idle" => HandledAlone(other))))
  /\ [][routes' = routes]_vars

\* both calls are in the middle of their callbacks, for different requests,
\* each with two callbacks recorded of which one has been called
C17_Witness ==
  /\ pc = "callbacks" /\ other.pc = "callbacks"
  /\ request # other.request
  /\ Len(callbacks) = 2 /\ Len(other.callbacks) = 2
  /\ Len(cbRuns) = 1 /\ Len(other.cbRuns) = 1

(* C18 (as stated): provided every handler and callback invocation          *)
(* completes, a call of handle eventually returns a Response.               *)
C18_EventuallyReturns == (pc = "loop") ~> (pc = "done")

IsPrefixOf(a, b) == Len(a) <= Len(b) /\ SubSeq(b, 1, Len(a)) = a

(* C19: every step leaves the entries of the route table in place: the      *)
(* table after the step begins with the table before it.  A step that is    *)
(* not a registration call (a step of handle, an iteration of matches, a    *)
(* call of the allowedMethods() handler) leaves the table as it is.  A      *)
(* registration call that returns adds, at the end, one entry, or, for get, *)
(* a GET entry directly followed by a HEAD entry that is otherwise the      *)
(* same.                                                                    *)
C19_AppendOnly ==
  [][/\ IsPrefixOf(routes, routes')
     /\ ~RegistrationStep => routes' = routes
     /\ (RegistrationStep /\ ~lastReg'.threw) =>
          LET n == Len(routes) IN
          IF routes'[n + 1].method = "GET"
          THEN /\ Len(routes') = n + 2
               /\ routes'[n + 2] = [routes'[n + 1] EXCEPT !.method = "HEAD"]
          ELSE Len(routes') = n + 1]_vars

\* a route was registered, then get added its two entries behind it, and a
\* request was answered by a handler
C19_Witness ==
  /\ pc = "done"
  /\ Answered
  /\ Len(routes) = 3
  /\ routes[1].method = "ALL"
  /\ routes[2].method = "GET"
  /\ routes[3].method = "HEAD"

\* every handler invoked so far resolved with a function or with nothing
\* (or has not resolved yet)
Unanswered ==
  \A k \in 1..Len(invoked) : invoked[k].outcome \in {"callback", "nothing", "pending"}

(* C20: as long as no handler has resolved with a Response or thrown, no    *)
(* callback is called; and when handle returns in that case, it returns     *)
(* status 404 with the body "Not Found", for a HEAD request too, with no    *)
(* header set by a callback.                                                *)
C20_UnansweredNotFound ==
  (Handling /\ Unanswered) =>
    /\ cbRuns = <<>>
    /\ pc \in {"loop", "handler", "done"}
    /\ pc = "done" =>
         /\ returned.status = 404
         /\ returned.body = "Not Found"
         /\ returned.marks = <<>>
         /\ returned.allow = <<>>

\* a HEAD request whose handlers recorded callbacks and never answered: the
\* 404 came back with its body and the callbacks were not called
C20_Witness ==
  /\ pc = "done"
  /\ request.method = "HEAD"
  /\ Unanswered
  /\ Len(callbacks) >= 2
  /\ cbRuns = <<>>
  /\ returned.body = "Not Found"

====
